---- MODULE Spec2Model ----
(***************************************************************************)
(* Model of src/preprocessing/preprocess_texts.py: the insider-transaction *)
(* disclosure processor (process_events_for_display and the segmenter /   *)
(* extractor / formatter preprocess_events_texts it calls).               *)
(*                                                                         *)
(* A Python str is modelled as a sequence of tokens.  A token is either a *)
(* single character (space, newline, hyphen, comma, period, percent,      *)
(* parentheses, plus, a digit) or an indivisible phrase or word whose     *)
(* text none of the code's patterns can match across a token boundary.    *)
(***************************************************************************)
EXTENDS Integers, Sequences, FiniteSets, TLC

----------------------------------------------------------------------------
(* Tokens                                                                  *)

SP == " "
NL == "\n"
HY == "-"
ANCHOR == "Name of person/ corporation that conducts the transfer:"
FINSTAT == "Financial Statement"
POSITION_PH == "Current position:"
TXTYPE_PH == "Type of transaction registered:"
REGISTERED_PH == "Number of shares registered:"
ACQUIRED_PH == "Acquired shares:"
BEFORE_PH == "before the transaction:"
AFTER_PH == "after the transaction:"
SHARES == "shares"
NOTIFY_PH == "Notify:"
EXEC_PH == "Exec:"

Digits == {"0", "1", "2", "3", "4", "5", "6", "7", "8", "9"}

\* str.isspace over the tokens: what \s matches and what str.strip removes
IsSpace(t) == t \in {SP, NL}

\* the value a pandas record holds for a missing cell: not a str
NaN == <<"float('nan')">>

IsStr(v) == v # NaN

\* str.upper, token by token
UpperTok(t) ==
  CASE t = ANCHOR -> "NAME OF PERSON/ CORPORATION THAT CONDUCTS THE TRANSFER:"
    [] t = FINSTAT -> "FINANCIAL STATEMENT"
    [] t = POSITION_PH -> "CURRENT POSITION:"
    [] t = TXTYPE_PH -> "TYPE OF TRANSACTION REGISTERED:"
    [] t = REGISTERED_PH -> "NUMBER OF SHARES REGISTERED:"
    [] t = ACQUIRED_PH -> "ACQUIRED SHARES:"
    [] t = BEFORE_PH -> "BEFORE THE TRANSACTION:"
    [] t = AFTER_PH -> "AFTER THE TRANSACTION:"
    [] t = SHARES -> "SHARES"
    [] t = NOTIFY_PH -> "NOTIFY:"
    [] t = EXEC_PH -> "EXEC:"
    [] t = "executed" -> "EXECUTED"
    [] t = "on" -> "ON"
    [] t = "from" -> "FROM"
    [] t = "to" -> "TO"
    [] t = "Acquired:" -> "ACQUIRED:"
    [] t = "change" -> "CHANGE"
    [] t = "of" -> "OF"
    [] t = "initial" -> "INITIAL"
    [] t = "John" -> "JOHN"
    [] t = "Doe" -> "DOE"
    [] t = "Jean" -> "JEAN"
    [] t = "Pierre" -> "PIERRE"
    [] t = "buy" -> "BUY"
    [] t = "sell" -> "SELL"
    [] t = "Notice" -> "NOTICE"
    [] OTHER -> t

\* the call of upper() left out
Upper_omitted(s) == s

Upper(s) == [i \in 1..Len(s) |-> UpperTok(s[i])]

----------------------------------------------------------------------------
(* str operations                                                          *)

RECURSIVE LStrip(_)
LStrip(s) == IF s # <<>> /\ IsSpace(Head(s)) THEN LStrip(Tail(s)) ELSE s

RECURSIVE RStrip(_)
RStrip(s) ==
  IF s # <<>> /\ IsSpace(s[Len(s)]) THEN RStrip(SubSeq(s, 1, Len(s) - 1)) ELSE s

\* str.strip()
Strip(s) == RStrip(LStrip(s))

\* tok in s
Contains(s, tok) == \E i \in 1..Len(s) : s[i] = tok

\* the least index i >= from with s[i] in toks, or 0
FirstIn(s, toks, from) ==
  IF \E i \in from..Len(s) : s[i] \in toks
  THEN CHOOSE i \in from..Len(s) :
         s[i] \in toks /\ \A j \in from..(i - 1) : s[j] \notin toks
  ELSE 0

\* str.split(sep): always at least one piece
RECURSIVE Split(_, _)
Split(s, sep) ==
  LET i == FirstIn(s, {sep}, 1)
  IN IF i = 0 THEN <<s>>
     ELSE <<SubSeq(s, 1, i - 1)>> \o Split(SubSeq(s, i + 1, Len(s)), sep)

\* str.splitlines(): no piece for the empty string or after a final newline
SplitLines(s) ==
  IF s = <<>> THEN <<>>
  ELSE LET p == Split(s, NL)
       IN IF p[Len(p)] = <<>> THEN SubSeq(p, 1, Len(p) - 1) ELSE p

\* sep.join(parts)
RECURSIVE Join(_, _)
Join(parts, sep) ==
  IF parts = <<>> THEN <<>>
  ELSE IF Len(parts) = 1 THEN parts[1]
  ELSE parts[1] \o sep \o Join(Tail(parts), sep)

\* s.replace(tok, "")
RECURSIVE Remove(_, _)
Remove(s, tok) ==
  IF s = <<>> THEN <<>>
  ELSE IF Head(s) = tok THEN Remove(Tail(s), tok)
  ELSE <<Head(s)>> \o Remove(Tail(s), tok)

\* the index after the run of tokens of cls that starts at i
RECURSIVE RunEnd(_, _, _)
RunEnd(s, i, cls) ==
  IF i <= Len(s) /\ s[i] \in cls THEN RunEnd(s, i + 1, cls) ELSE i

----------------------------------------------------------------------------
(* The searches of get(pattern): re.search(pattern, entry), group 1,       *)
(* stripped, or "" when nothing matches.  An entry holds no newline (it is *)
(* built from the pieces of splitlines), so "." matches every token of it. *)

WS == {SP, NL}

DigitDot == Digits \cup {"."}

DigitComma == Digits \cup {","}

HyDigitComma == Digits \cup {",", HY}

\* r'<phrase>\s*(.*?)\s*-' : the text after the first occurrence of the
\* phrase, up to the first hyphen after it
get_until_hyphen(entry, phrase) ==
  LET i == FirstIn(entry, {phrase}, 1)
      h == IF i = 0 THEN 0 ELSE FirstIn(entry, {HY}, i + 1)
  IN IF h = 0 THEN <<>> ELSE Strip(SubSeq(entry, i + 1, h - 1))

\* r'<phrase>\s*([cls]+)\s*shares' : tried at each occurrence of the phrase
RECURSIVE get_before_shares(_, _, _, _)
get_before_shares(entry, phrase, cls, from) ==
  LET i == FirstIn(entry, {phrase}, from)
  IN IF i = 0 THEN <<>>
     ELSE LET j == RunEnd(entry, i + 1, WS)
              e == RunEnd(entry, j, cls)
              k == RunEnd(entry, e, WS)
          IN IF e > j /\ k <= Len(entry) /\ entry[k] = SHARES
             THEN SubSeq(entry, j, e - 1)
             ELSE get_before_shares(entry, phrase, cls, i + 1)

\* r'<phrase>.*?([\d.]+%)' : the first run of digits and periods after the
\* first occurrence of the phrase that a percent sign follows
get_percent(entry, phrase) ==
  LET i == FirstIn(entry, {phrase}, 1)
      Hit(p) == /\ entry[p] \in DigitDot
                /\ RunEnd(entry, p, DigitDot) <= Len(entry)
                /\ entry[RunEnd(entry, p, DigitDot)] = "%"
  IN IF i = 0 \/ ~ \E p \in (i + 1)..Len(entry) : Hit(p) THEN <<>>
     ELSE LET p == CHOOSE p \in (i + 1)..Len(entry) :
                     Hit(p) /\ \A q \in (i + 1)..(p - 1) : ~ Hit(q)
          IN SubSeq(entry, p, RunEnd(entry, p, DigitDot))

\* \d{4}-\d{2}-\d{2} matches at index j
IsDateAt(s, j) ==
  /\ j + 9 <= Len(s)
  /\ \A d \in {0, 1, 2, 3, 5, 6, 8, 9} : s[j + d] \in Digits
  /\ s[j + 4] = HY
  /\ s[j + 7] = HY

\* r'Exec:\s*(\d{4}-\d{2}-\d{2})' : tried at each occurrence of "Exec:"
RECURSIVE get_exec_date(_, _)
get_exec_date(entry, from) ==
  LET i == FirstIn(entry, {EXEC_PH}, from)
  IN IF i = 0 THEN <<>>
     ELSE LET j == RunEnd(entry, i + 1, WS)
          IN IF IsDateAt(entry, j) THEN SubSeq(entry, j, j + 9)
             ELSE get_exec_date(entry, i + 1)

\* re.search(r'on (\d{4}-\d{2}-\d{2})', summary): group 1, or <<>> for None
RECURSIVE search_on_date(_, _)
search_on_date(summary, from) ==
  LET i == FirstIn(summary, {"on"}, from)
  IN IF i = 0 THEN <<>>
     ELSE IF i + 1 <= Len(summary) /\ summary[i + 1] = SP
             /\ IsDateAt(summary, i + 2)
          THEN SubSeq(summary, i + 2, i + 11)
          ELSE search_on_date(summary, i + 1)

----------------------------------------------------------------------------
(* float(), the arithmetic and the f-string number formats.  A parsed      *)
(* number is num / 10^dec, kept exact; ":.2f" rounds half to even.  On the *)
(* numbers of at most two decimals used below the result is the one the    *)
(* IEEE doubles of the code print.                                         *)

DigitSeq == <<"0", "1", "2", "3", "4", "5", "6", "7", "8", "9">>

DigitVal(t) == (CHOOSE i \in 1..10 : DigitSeq[i] = t) - 1

RECURSIVE ToNat(_)
ToNat(ds) ==
  IF ds = <<>> THEN 0
  ELSE 10 * ToNat(SubSeq(ds, 1, Len(ds) - 1)) + DigitVal(ds[Len(ds)])

RECURSIVE NatToDigits(_)
NatToDigits(n) ==
  IF n < 10 THEN <<DigitSeq[n + 1]>>
  ELSE NatToDigits(n \div 10) \o <<DigitSeq[(n % 10) + 1]>>

RECURSIVE Pow10(_)
Pow10(n) == IF n = 0 THEN 1 ELSE 10 * Pow10(n - 1)

\* float(s) raises ValueError unless s is digits with at most one period
FloatOk(s) ==
  /\ \A i \in 1..Len(s) : s[i] \in DigitDot
  /\ \E i \in 1..Len(s) : s[i] \in Digits
  /\ Cardinality({i \in 1..Len(s) : s[i] = "."}) <= 1

FloatNum(s) == ToNat(Remove(s, "."))

FloatDec(s) ==
  LET i == FirstIn(s, {"."}, 1) IN IF i = 0 THEN 0 ELSE Len(s) - i

\* the digits of m hundredths: "X.XX"
Fixed2(m) ==
  NatToDigits(m \div 100) \o <<".", DigitSeq[((m \div 10) % 10) + 1],
                               DigitSeq[(m % 10) + 1]>>

\* round(n / d) to the nearest integer, ties to even (n >= 0, d > 0)
RoundDiv(n, d) ==
  LET q == n \div d
      r == n % d
  IN IF 2 * r > d \/ (2 * r = d /\ q % 2 = 1) THEN q + 1 ELSE q

\* lines 70-76: the try block of the percentage difference
pct_diff_str(percent_before, percent_after) ==
  LET b == Remove(percent_before, "%")
      a == Remove(percent_after, "%")
  IN IF ~ FloatOk(b) \/ ~ FloatOk(a) THEN <<>>
     ELSE LET d == IF FloatDec(a) > FloatDec(b) THEN FloatDec(a)
                   ELSE FloatDec(b)
              diff == FloatNum(a) * Pow10(d - FloatDec(a))
                      - FloatNum(b) * Pow10(d - FloatDec(b))
              mag == IF diff < 0 THEN 0 - diff ELSE diff
              m == RoundDiv(mag * 100, Pow10(d))
          IN <<SP, "(", IF diff < 0 THEN HY ELSE "+">> \o Fixed2(m)
             \o <<"%", SP, "change", ")">>

\* lines 79-84: the try block of the registered-share ratio
registered_pct_str(shares_registered, shares_before) ==
  IF ~ FloatOk(shares_registered) \/ ~ FloatOk(shares_before) THEN <<>>
  ELSE IF FloatNum(shares_before) = 0 THEN <<>>
  ELSE LET n == FloatNum(shares_registered) * Pow10(FloatDec(shares_before))
                * 10000
           d == FloatNum(shares_before) * Pow10(FloatDec(shares_registered))
       IN <<SP, "(">> \o Fixed2(RoundDiv(n, d))
          \o <<"%", SP, "of", SP, "initial", ")">>

----------------------------------------------------------------------------
(* Lines 48-90: the fields of one entry and its summary                    *)

Extract(entry) ==
  [name |-> get_until_hyphen(entry, ANCHOR),
   position |-> get_until_hyphen(entry, POSITION_PH),
   tx_type |-> get_until_hyphen(entry, TXTYPE_PH),
   shares_before |->
     Remove(get_before_shares(entry, BEFORE_PH, DigitComma, 1), ","),
   percent_before |-> get_percent(entry, BEFORE_PH),
   shares_registered |->
     Remove(get_before_shares(entry, REGISTERED_PH, DigitComma, 1), ","),
   acquired_shares |->
     Remove(get_before_shares(entry, ACQUIRED_PH, HyDigitComma, 1), ","),
   shares_after |->
     Remove(get_before_shares(entry, AFTER_PH, DigitComma, 1), ","),
   percent_after |-> get_percent(entry, AFTER_PH),
   exec_date |-> get_exec_date(entry, 1)]

Render(r) ==
  r.name \o <<SP, "(">> \o r.position \o <<")", SP, "executed", SP>>
  \o Upper(r.tx_type) \o <<SP>> \o r.shares_registered \o <<SP, SHARES>>
  \o registered_pct_str(r.shares_registered, r.shares_before)
  \o <<SP, "on", SP>> \o r.exec_date \o <<SP, "from", SP>>
  \o r.shares_before \o <<SP, SHARES, SP, "(">> \o r.percent_before
  \o <<")", SP, "to", SP>> \o r.shares_after \o <<SP, SHARES, SP, "(">>
  \o r.percent_after \o <<")", ".", SP, "Acquired:", SP>>
  \o r.acquired_shares \o <<SP, SHARES>>
  \o pct_diff_str(r.percent_before, r.percent_after) \o <<".">>

summary_of(entry) == Render(Extract(entry))

----------------------------------------------------------------------------
(* Records: a dict is a function from its keys (missing keys are absent   *)
(* from the domain) to strs.                                               *)

\* event.get(key, "")
Get(event, key) == IF key \in DOMAIN event THEN event[key] ELSE <<>>

\* event[key] = value
SetKey(event, key, value) ==
  [k \in DOMAIN event \cup {key} |-> IF k = key THEN value ELSE event[k]]

\* the anchor phrase looked for without regard to case
IsTransaction_anycase(event_desc) ==
  Contains(event_desc, ANCHOR) \/ Contains(event_desc, UpperTok(ANCHOR))

\* line 108: the anchor phrase is in event_desc
IsTransaction(event_desc) == Contains(event_desc, ANCHOR)

\* line 110: the f-string that appends the dates
enhanced_desc(event) ==
  Get(event, "event_desc") \o <<SP, NOTIFY_PH, SP>>
  \o Get(event, "notify_date") \o <<",", SP, EXEC_PH, SP>>
  \o Get(event, "exer_date")

\* line 30: the lines the fold runs over
lines_of(t) == SplitLines(Strip(t))

\* line 34: re.match(r'^\s*- Name of person/ ... the transfer:', line)
IsAnchorLine(line) ==
  LET j == RunEnd(line, 1, WS)
  IN /\ j + 2 <= Len(line)
     /\ line[j] = HY
     /\ line[j + 1] = SP
     /\ line[j + 2] = ANCHOR

\* lines 34-36: the buffer is flushed before this line is appended
Flushes(buf, line) == IsAnchorLine(line) /\ buf # <<>>

\* the buffer not reset by a flush
buffer_after_noreset(buf, line) == buf \o <<SP>> \o Strip(line)

\* lines 34-38: the buffer after one line
buffer_after(buf, line) ==
  (IF Flushes(buf, line) THEN <<>> ELSE buf) \o <<SP>> \o Strip(line)

\* lines 34-36 and 39-40: the block list after a flush of a non-empty buffer
flushed(blocks, buf) ==
  IF buf # <<>> THEN Append(blocks, Strip(buf)) ELSE blocks

\* line 113: [line.strip() for line in summary_text.split('\n') if line.strip()]
RECURSIVE StrippedNonEmpty(_)
StrippedNonEmpty(parts) ==
  IF parts = <<>> THEN <<>>
  ELSE (IF Strip(Head(parts)) # <<>> THEN <<Strip(Head(parts))>> ELSE <<>>)
       \o StrippedNonEmpty(Tail(parts))

summary_lines_of(st) == StrippedNonEmpty(Split(st, NL))

\* the last summary line taken instead of the first
choose_summary_last(summary_lines, event_desc) ==
  IF summary_lines # <<>> THEN summary_lines[Len(summary_lines)]
  ELSE event_desc

\* line 114: summary_lines[0] if summary_lines else event_desc
choose_summary(summary_lines, event_desc) ==
  IF summary_lines # <<>> THEN summary_lines[1] ELSE event_desc

\* lines 117-118: the date found in the summary, else the event's own
choose_exec_date(summary, event) ==
  LET m == search_on_date(summary, 1)
  IN IF m # <<>> THEN m ELSE Get(event, "exer_date")

\* lines 120-123: the copy with the three rewritten keys
new_event_of(event, summary, exec_date) ==
  SetKey(SetKey(SetKey(event, "event_desc", summary), "exer_date", exec_date),
         "notify_date", <<>>)

\* notify_date cleared on the passthrough branch too
copy_of_clearing(event) == SetKey(event, "notify_date", <<>>)

\* line 126: event.copy()
copy_of(event) == event

\* the record inserted at the front
appended_front(out, e) == <<e>> \o out

\* lines 124 and 126: processed_events.append(e)
appended(out, e) == Append(out, e)

\* the record rewritten in place, without copy()
input_after_alias(evs, i, ne) == [evs EXCEPT ![i] = ne]

\* line 120: the copy leaves the caller's record as it was
input_after(evs, i, ne) == evs

EmptyRec ==
  [name |-> <<>>, position |-> <<>>, tx_type |-> <<>>,
   shares_before |-> <<>>, percent_before |-> <<>>,
   shares_registered |-> <<>>, acquired_shares |-> <<>>,
   shares_after |-> <<>>, percent_after |-> <<>>, exec_date |-> <<>>]

----------------------------------------------------------------------------
(* Inputs                                                                  *)

MaxEvents == 2
MaxLines == 3

Date1 == <<"2", "0", "2", "4", HY, "0", "1", HY, "0", "1">>
Date2 == <<"2", "0", "2", "4", HY, "0", "1", HY, "0", "2">>

FieldSep == <<SP, HY, SP>>
AnchorHead == <<HY, SP, ANCHOR, SP>>
JohnDoeCEO ==
  AnchorHead \o <<"John", SP, "Doe">> \o FieldSep \o <<POSITION_PH, SP, "CEO">>
Registered1000 == <<REGISTERED_PH, SP, "1", ",", "0", "0", "0", SP, SHARES>>
Acquired500 == <<ACQUIRED_PH, SP, "5", "0", "0", SP, SHARES>>

\* Example 1 of the description: every field present
Ex1Desc ==
  JohnDoeCEO \o FieldSep \o <<TXTYPE_PH, SP, "buy">> \o FieldSep
  \o Registered1000 \o FieldSep \o Acquired500 \o FieldSep
  \o <<BEFORE_PH, SP, "2", ",", "0", "0", "0", SP, SHARES, SP,
       "(", "5", ".", "0", "0", "%", ")">> \o FieldSep
  \o <<AFTER_PH, SP, "2", ",", "5", "0", "0", SP, SHARES, SP,
       "(", "7", ".", "5", "0", "%", ")">>

\* Example 2: no percentages in the text
Ex2Desc ==
  JohnDoeCEO \o FieldSep \o <<TXTYPE_PH, SP, "buy">> \o FieldSep
  \o Registered1000 \o FieldSep \o Acquired500 \o FieldSep
  \o <<BEFORE_PH, SP, "2", ",", "0", "0", "0", SP, SHARES>> \o FieldSep
  \o <<AFTER_PH, SP, "2", ",", "5", "0", "0", SP, SHARES>>

\* Example 3: zero shares before the transaction
Ex3Desc ==
  JohnDoeCEO \o FieldSep \o <<TXTYPE_PH, SP, "buy">> \o FieldSep
  \o Registered1000 \o FieldSep
  \o <<BEFORE_PH, SP, "0", SP, SHARES, SP, "(", "0", ".", "0", "0", "%", ")">>
  \o FieldSep
  \o <<AFTER_PH, SP, "1", ",", "0", "0", "0", SP, SHARES, SP,
       "(", "2", ".", "5", "%", ")">>

\* a sale: negative acquired shares, falling percentage, a ratio to round
SellDesc ==
  JohnDoeCEO \o FieldSep \o <<TXTYPE_PH, SP, "sell">> \o FieldSep
  \o <<REGISTERED_PH, SP, "1", "0", "0", SP, SHARES>> \o FieldSep
  \o <<ACQUIRED_PH, SP, HY, "1", "0", "0", SP, SHARES>> \o FieldSep
  \o <<BEFORE_PH, SP, "3", "0", "0", SP, SHARES, SP,
       "(", "7", ".", "5", "0", "%", ")">> \o FieldSep
  \o <<AFTER_PH, SP, "2", "0", "0", SP, SHARES, SP,
       "(", "5", ".", "2", "5", "%", ")">>

\* two persons, one per line
TwoBlockDesc ==
  JohnDoeCEO \o FieldSep \o <<NL>> \o AnchorHead \o <<"Jean">> \o FieldSep

\* a line of text before the first anchor line
PreambleDesc == <<"Notice", NL>> \o JohnDoeCEO \o FieldSep

\* a hyphenated name; the transaction type is the last field of the text
HyphenDesc ==
  AnchorHead \o <<"Jean", HY, "Pierre">> \o FieldSep
  \o <<POSITION_PH, SP, "CEO">> \o FieldSep \o <<TXTYPE_PH, SP, "buy">>

\* the anchor phrase again inside the name
NameAnchorDesc == <<ANCHOR, SP, ANCHOR, SP, "John">> \o FieldSep

\* the anchor phrase inside the transaction type
TypeAnchorDesc ==
  AnchorHead \o <<"John">> \o FieldSep \o <<TXTYPE_PH, SP, ANCHOR>> \o FieldSep

\* every block holds "Financial Statement"
AllSkippedDesc == AnchorHead \o <<"John">> \o FieldSep \o <<FINSTAT>>

\* the first block is skipped, the second is not
SkipFirstDesc ==
  AnchorHead \o <<FINSTAT, NL>> \o JohnDoeCEO \o FieldSep

\* an anchored block without a name
NoNameDesc == AnchorHead \o <<HY, SP, POSITION_PH, SP, "CEO">> \o FieldSep

EventCatalogue ==
  { [event_desc |-> Ex1Desc, exer_date |-> Date1, notify_date |-> Date2,
     symbol |-> <<"AAA">>],
    [event_desc |-> Ex1Desc, exer_date |-> Date1, symbol |-> <<"BBB">>],
    [event_desc |-> Ex2Desc, exer_date |-> Date1, notify_date |-> Date2,
     symbol |-> <<"AAA">>],
    [event_desc |-> Ex3Desc, exer_date |-> Date1, notify_date |-> <<>>,
     symbol |-> <<"BBB">>],
    [event_desc |-> SellDesc, exer_date |-> Date2, notify_date |-> Date1,
     symbol |-> <<"AAA">>],
    [event_desc |-> <<FINSTAT>>, exer_date |-> Date1, notify_date |-> Date2,
     symbol |-> <<"AAA">>],
    [event_desc |-> <<"Notice">>, symbol |-> <<"BBB">>],
    [exer_date |-> Date1, symbol |-> <<"AAA">>],
    [event_desc |-> <<>>, exer_date |-> <<>>, notify_date |-> Date2,
     symbol |-> <<"BBB">>],
    [event_desc |-> TwoBlockDesc, notify_date |-> Date2, symbol |-> <<"AAA">>],
    [event_desc |-> PreambleDesc, exer_date |-> Date1, notify_date |-> Date2,
     symbol |-> <<"BBB">>],
    [event_desc |-> HyphenDesc, exer_date |-> Date1, notify_date |-> Date2,
     symbol |-> <<"AAA">>],
    [event_desc |-> NameAnchorDesc, exer_date |-> Date1, notify_date |-> Date2,
     symbol |-> <<"BBB">>],
    [event_desc |-> TypeAnchorDesc, exer_date |-> Date1, notify_date |-> Date2,
     symbol |-> <<"AAA">>],
    [event_desc |-> AllSkippedDesc, exer_date |-> Date1, notify_date |-> Date2,
     symbol |-> <<"BBB">>],
    [event_desc |-> SkipFirstDesc, exer_date |-> Date1, notify_date |-> Date2,
     symbol |-> <<"AAA">>],
    [event_desc |-> NoNameDesc, exer_date |-> Date1, notify_date |-> Date2,
     symbol |-> <<"BBB">>],
    [event_desc |-> <<ANCHOR>>, exer_date |-> <<>>, notify_date |-> Date2,
     symbol |-> <<"AAA">>],
    [event_desc |-> NaN, exer_date |-> Date1, notify_date |-> Date2,
     symbol |-> <<"BBB">>] }

EventLists == UNION {[1..n -> EventCatalogue] : n \in 0..MaxEvents}

LineDomain ==
  { <<>>,
    <<SP>>,
    <<"Notice">>,
    <<SP, "Doe", SP>>,
    <<FINSTAT>>,
    <<ANCHOR, SP, "Doe">>,
    AnchorHead \o <<"John">> \o FieldSep \o <<POSITION_PH, SP, "CEO", SP, HY>>,
    <<SP>> \o AnchorHead \o <<"Jean", HY, "Pierre">> \o FieldSep,
    <<TXTYPE_PH, SP, "buy">> \o FieldSep \o <<POSITION_PH, SP, "CEO">> }

TextDomain ==
  {Join(ls, <<NL>>) : ls \in UNION {[1..n -> LineDomain] : n \in 0..MaxLines}}

----------------------------------------------------------------------------
(* State                                                                   *)

VARIABLES
  events,            \* the argument of process_events_for_display
  processed_events,  \* its result list
  idx,               \* position of the for loop of line 104 (1-based)
  pass,              \* 1: the call on the input, 2: the call on its own output
  pc,                \* "loop", "seg", "extract", "ret", "done", "raised"
  text,              \* the argument of preprocess_events_texts
  lines,             \* line 30
  li,                \* position of the for loop of line 33
  buffer,            \* line 32
  summaries,         \* line 29: the blocks
  si,                \* position of the for loop of line 44
  final_outputs,     \* line 42
  rec,               \* the fields extracted from the last entry (lines 52-67)
  summary_text       \* the value returned at line 94

vars == <<events, processed_events, idx, pass, pc, text, lines, li, buffer,
          summaries, si, final_outputs, rec, summary_text>>

orch == <<events, processed_events, idx, pass>>

locals == <<text, lines, li, buffer, summaries, si, final_outputs, rec,
            summary_text>>

NoLocals ==
  /\ text = <<>>
  /\ lines = <<>>
  /\ li = 1
  /\ buffer = <<>>
  /\ summaries = <<>>
  /\ si = 1
  /\ final_outputs = <<>>
  /\ rec = EmptyRec
  /\ summary_text = <<>>

\* the locals of preprocess_events_texts go out of scope
DropLocals ==
  /\ text' = <<>>
  /\ lines' = <<>>
  /\ li' = 1
  /\ buffer' = <<>>
  /\ summaries' = <<>>
  /\ si' = 1
  /\ final_outputs' = <<>>
  /\ rec' = EmptyRec
  /\ summary_text' = <<>>

Init ==
  /\ events \in EventLists
  /\ processed_events = <<>>
  /\ idx = 1
  /\ pass = 1
  /\ pc = "loop"
  /\ NoLocals

\* preprocess_events_texts called on its own, line 30 executed
InitText ==
  /\ events = <<>>
  /\ processed_events = <<>>
  /\ idx = 1
  /\ pass = 1
  /\ pc = "seg"
  /\ text \in TextDomain
  /\ lines = lines_of(text)
  /\ li = 1
  /\ buffer = <<>>
  /\ summaries = <<>>
  /\ si = 1
  /\ final_outputs = <<>>
  /\ rec = EmptyRec
  /\ summary_text = <<>>

----------------------------------------------------------------------------
(* process_events_for_display                                              *)

\* lines 104-108 and 125-126: an event without the anchor phrase
Passthrough ==
  /\ pc = "loop"
  /\ idx <= Len(events)
  /\ IsStr(Get(events[idx], "event_desc"))
  /\ ~ IsTransaction(Get(events[idx], "event_desc"))
  /\ processed_events' = appended(processed_events, copy_of(events[idx]))
  /\ idx' = idx + 1
  /\ UNCHANGED <<events, pass, pc, locals>>

\* line 108: "in" applied to a value that is not a str raises TypeError,
\* which nothing catches
RaiseTypeError ==
  /\ pc = "loop"
  /\ idx <= Len(events)
  /\ ~ IsStr(Get(events[idx], "event_desc"))
  /\ pc' = "raised"
  /\ UNCHANGED <<orch, locals>>

\* lines 108-112 and 29-32: a transaction event enters preprocess_events_texts
CallPreprocess ==
  /\ pc = "loop"
  /\ idx <= Len(events)
  /\ IsStr(Get(events[idx], "event_desc"))
  /\ IsTransaction(Get(events[idx], "event_desc"))
  /\ text' = enhanced_desc(events[idx])
  /\ lines' = lines_of(text')
  /\ li' = 1
  /\ buffer' = <<>>
  /\ summaries' = <<>>
  /\ pc' = "seg"
  /\ UNCHANGED <<orch, si, final_outputs, rec, summary_text>>

\* lines 33-38: one line of the segmentation fold
SegLine ==
  /\ pc = "seg"
  /\ li <= Len(lines)
  /\ summaries' = IF Flushes(buffer, lines[li]) THEN flushed(summaries, buffer)
                  ELSE summaries
  /\ buffer' = buffer_after(buffer, lines[li])
  /\ li' = li + 1
  /\ UNCHANGED <<orch, pc, text, lines, si, final_outputs, rec, summary_text>>

\* lines 39-42: the final flush
SegFlush ==
  /\ pc = "seg"
  /\ li > Len(lines)
  /\ summaries' = flushed(summaries, buffer)
  /\ final_outputs' = <<>>
  /\ si' = 1
  /\ pc' = "extract"
  /\ UNCHANGED <<orch, text, lines, li, buffer, rec, summary_text>>

\* lines 44-46: a block holding "Financial Statement" is skipped
SkipEntry ==
  /\ pc = "extract"
  /\ si <= Len(summaries)
  /\ Contains(summaries[si], FINSTAT)
  /\ si' = si + 1
  /\ UNCHANGED <<orch, pc, text, lines, li, buffer, summaries, final_outputs,
                 rec, summary_text>>

\* lines 48-92: the fields and the summary of one block
SummarizeEntry ==
  /\ pc = "extract"
  /\ si <= Len(summaries)
  /\ ~ Contains(summaries[si], FINSTAT)
  /\ rec' = Extract(summaries[si])
  /\ final_outputs' = Append(final_outputs, Render(rec'))
  /\ si' = si + 1
  /\ UNCHANGED <<orch, pc, text, lines, li, buffer, summaries, summary_text>>

\* line 94
ReturnText ==
  /\ pc = "extract"
  /\ si > Len(summaries)
  /\ summary_text' = Join(final_outputs, <<NL>>)
  /\ pc' = "ret"
  /\ UNCHANGED <<orch, text, lines, li, buffer, summaries, si, final_outputs,
                 rec>>

\* lines 113-124: the summary is chosen and the rewritten copy appended
SelectSummary ==
  /\ pc = "ret"
  /\ idx <= Len(events)
  /\ LET event == events[idx]
         summary == choose_summary(summary_lines_of(summary_text),
                                   Get(event, "event_desc"))
         new_event == new_event_of(event, summary,
                                   choose_exec_date(summary, event))
     IN /\ processed_events' = appended(processed_events, new_event)
        /\ events' = input_after(events, idx, new_event)
  /\ idx' = idx + 1
  /\ pc' = "loop"
  /\ DropLocals
  /\ UNCHANGED pass

\* line 128
Return ==
  /\ pc = "loop"
  /\ idx > Len(events)
  /\ pc' = "done"
  /\ UNCHANGED <<orch, locals>>

\* the function applied to the list it returned
Reapply ==
  /\ pc = "done"
  /\ pass = 1
  /\ events' = processed_events
  /\ processed_events' = <<>>
  /\ idx' = 1
  /\ pass' = 2
  /\ pc' = "loop"
  /\ UNCHANGED locals

Next ==
  \/ Passthrough
  \/ RaiseTypeError
  \/ CallPreprocess
  \/ SegLine
  \/ SegFlush
  \/ SkipEntry
  \/ SummarizeEntry
  \/ ReturnText
  \/ SelectSummary
  \/ Return
  \/ Reapply

Spec == Init /\ [][Next]_vars

NextText ==
  \/ SegLine
  \/ SegFlush
  \/ SkipEntry
  \/ SummarizeEntry
  \/ ReturnText

SpecText == InitText /\ [][NextText]_vars

----------------------------------------------------------------------------
(* Definitions the properties are stated with                              *)

\* the tokens of s that are not whitespace, in order
Words(s) == SelectSeq(s, LAMBDA t : ~ IsSpace(t))

\* p occurs in s as a contiguous piece
IsInfix(p, s) ==
  \E k \in 0..(Len(s) - Len(p)) : SubSeq(s, k + 1, k + Len(p)) = p

\* the indices at which a block starts: the first line and every later
\* line that matches the anchor pattern
Cuts(ls) ==
  IF ls = <<>> THEN {} ELSE {1} \cup {i \in 2..Len(ls) : IsAnchorLine(ls[i])}

NthCut(ls, k) ==
  CHOOSE c \in Cuts(ls) : Cardinality({d \in Cuts(ls) : d < c}) = k - 1

\* the lines of the k-th block, stripped and joined by single spaces
BlockOf(ls, k) ==
  LET first == NthCut(ls, k)
      last == IF k = Cardinality(Cuts(ls)) THEN Len(ls)
              ELSE NthCut(ls, k + 1) - 1
  IN Strip(Join([j \in 1..(last - first + 1) |-> Strip(ls[first + j - 1])],
                <<SP>>))

BlocksOf(ls) == [k \in 1..Cardinality(Cuts(ls)) |-> BlockOf(ls, k)]

\* the blocks of a transaction event
EventBlocks(event) == BlocksOf(lines_of(enhanced_desc(event)))

\* the index of the first block not skipped for "Financial Statement", or 0
FirstKept(blocks) ==
  IF \A k \in 1..Len(blocks) : Contains(blocks[k], FINSTAT) THEN 0
  ELSE CHOOSE k \in 1..Len(blocks) :
         /\ ~ Contains(blocks[k], FINSTAT)
         /\ \A j \in 1..(k - 1) : Contains(blocks[j], FINSTAT)

\* the text after the first occurrence of the phrase up to the next
\* separator " - ", trimmed; empty without phrase or separator
FieldUpToSeparator(entry, phrase) ==
  LET i == FirstIn(entry, {phrase}, 1)
      IsSep(h) == /\ h + 2 <= Len(entry)
                  /\ SubSeq(entry, h, h + 2) = <<SP, HY, SP>>
  IN IF i = 0 \/ ~ \E h \in (i + 1)..Len(entry) : IsSep(h) THEN <<>>
     ELSE LET h == CHOOSE h \in (i + 1)..Len(entry) :
                     IsSep(h) /\ \A g \in (i + 1)..(h - 1) : ~ IsSep(g)
          IN Strip(SubSeq(entry, i + 1, h - 1))

\* event i has been processed in the current call
Processed(i) == i \in 1..Len(processed_events) /\ i <= Len(events)

IsTx(event) ==
  /\ IsStr(Get(event, "event_desc"))
  /\ Contains(Get(event, "event_desc"), ANCHOR)

IsPass(event) ==
  /\ IsStr(Get(event, "event_desc"))
  /\ ~ Contains(Get(event, "event_desc"), ANCHOR)

RewrittenKeys == {"event_desc", "exer_date", "notify_date"}

\* the summary of the first kept block as rendered, else the description
FirstSummaryRendered(event) ==
  LET blocks == EventBlocks(event)
      k == FirstKept(blocks)
  IN IF k = 0 THEN Get(event, "event_desc") ELSE summary_of(blocks[k])

\* the same with the summary line stripped of surrounding whitespace
FirstSummaryStripped(event) ==
  LET blocks == EventBlocks(event)
      k == FirstKept(blocks)
  IN IF k = 0 THEN Get(event, "event_desc") ELSE Strip(summary_of(blocks[k]))

----------------------------------------------------------------------------
(* C1: the returned list has the length of the input list, and its i-th    *)
(* record is the result of processing the i-th input record: nothing is    *)
(* dropped, duplicated or reordered, on either branch.                     *)

Corresponds(in, out) ==
  /\ \A k \in DOMAIN in \ RewrittenKeys : k \in DOMAIN out /\ out[k] = in[k]
  /\ IsPass(in) => out = in
  /\ IsTx(in) => /\ Get(out, "event_desc") = FirstSummaryStripped(in)
                 /\ Get(out, "notify_date") = <<>>

C1_SameLengthSameOrder ==
  /\ pc = "done" => Len(processed_events) = Len(events)
  /\ pc = "loop" => Len(processed_events) = idx - 1
  /\ \A i \in 1..Len(processed_events) :
       i <= Len(events) /\ Corresponds(events[i], processed_events[i])

C1_Witness ==
  /\ pc = "done"
  /\ pass = 1
  /\ Len(events) = 2
  /\ IsTx(events[1])
  /\ IsPass(events[2])
  /\ events[1]["symbol"] # events[2]["symbol"]

(* C2: an event whose event_desc lacks the anchor phrase passes through    *)
(* with every field identical to the input, also when its event_desc       *)
(* contains "Financial Statement".                                         *)

C2_PassthroughUnchanged ==
  \A i \in 1..Len(processed_events) :
    (i <= Len(events) /\ IsPass(events[i])) => processed_events[i] = events[i]

C2_Witness ==
  \E i \in 1..Len(processed_events) :
    /\ Processed(i)
    /\ IsPass(events[i])
    /\ Contains(Get(events[i], "event_desc"), FINSTAT)
    /\ Get(events[i], "notify_date") # <<>>

(* C3, as stated: applying the function to its own output returns a list   *)
(* equal to that output.                                                   *)

C3_Idempotent == (pass = 2 /\ pc = "done") => processed_events = events

(* C3, amended: applying the function to its own output returns a list     *)
(* equal to that output whenever no event_desc of that output contains the *)
(* anchor phrase.                                                          *)

NoAnchorLeft ==
  \A i \in 1..Len(events) : ~ Contains(Get(events[i], "event_desc"), ANCHOR)

C3_IdempotentWithoutAnchor ==
  (pass = 2 /\ pc = "done" /\ NoAnchorLeft) => processed_events = events

C3_Witness ==
  /\ pass = 2
  /\ pc = "done"
  /\ NoAnchorLeft
  /\ Len(events) = 2
  /\ \A i \in 1..2 : Contains(Get(events[i], "event_desc"), "executed")
  /\ \E i \in 1..2 :
       Contains(Get(events[i], "event_desc"), UpperTok(ANCHOR))

(* C4: the function never raises: every call terminates by returning a     *)
(* list.                                                                   *)

C4_NeverRaises == pc # "raised"

(* C5, as stated: for a transaction event the output event_desc is the     *)
(* summary of the first block not skipped for "Financial Statement", and   *)
(* the original event_desc when every block is skipped.                    *)

C5_FirstSummary ==
  \A i \in 1..Len(processed_events) :
    (i <= Len(events) /\ IsTx(events[i])) =>
      Get(processed_events[i], "event_desc") = FirstSummaryRendered(events[i])

(* C5, amended: for a transaction event the output event_desc is the       *)
(* summary of the first block not skipped for "Financial Statement" with   *)
(* surrounding whitespace removed, and the original event_desc when every  *)
(* block is skipped.                                                       *)

C5_FirstSummaryStripped ==
  \A i \in 1..Len(processed_events) :
    (i <= Len(events) /\ IsTx(events[i])) =>
      Get(processed_events[i], "event_desc") = FirstSummaryStripped(events[i])

C5_Witness ==
  /\ pc = "done"
  /\ pass = 1
  /\ Len(events) = 2
  /\ Get(events[1], "event_desc") = TwoBlockDesc
  /\ Get(events[2], "event_desc") = AllSkippedDesc

(* C6, as stated: for a transaction event the output record has exactly    *)
(* the input record's keys, an empty notify_date, and the input's value    *)
(* under every key other than event_desc, exer_date and notify_date.       *)

C6_SameKeys ==
  \A i \in 1..Len(processed_events) :
    (i <= Len(events) /\ IsTx(events[i])) =>
      /\ DOMAIN processed_events[i] = DOMAIN events[i]
      /\ processed_events[i]["notify_date"] = <<>>
      /\ \A k \in DOMAIN events[i] \ RewrittenKeys :
           processed_events[i][k] = events[i][k]

(* C6, amended: for a transaction event the output record has the input    *)
(* record's keys and the keys exer_date and notify_date (added when the    *)
(* input lacks them), an empty notify_date, and the input's value under    *)
(* every key other than event_desc, exer_date and notify_date; the input   *)
(* record is left unmodified.                                              *)

C6_Frame ==
  \A i \in 1..Len(processed_events) :
    (i <= Len(events) /\ IsTx(events[i])) =>
      /\ DOMAIN processed_events[i]
           = DOMAIN events[i] \cup {"exer_date", "notify_date"}
      /\ processed_events[i]["notify_date"] = <<>>
      /\ \A k \in DOMAIN events[i] \ RewrittenKeys :
           processed_events[i][k] = events[i][k]

C6_KeysAddedInputKept == [] C6_Frame /\ [][pc # "done" => events' = events]_vars

C6_Witness ==
  \E i \in 1..Len(processed_events) :
    /\ Processed(i)
    /\ IsTx(events[i])
    /\ "notify_date" \notin DOMAIN events[i]
    /\ "symbol" \in DOMAIN processed_events[i]

(* C7, as stated: Example 1 yields a summary that contains the text with   *)
(* the share counts written "1,000", "2,000" and "2,500", the exer_date    *)
(* 2024-01-01 and an empty notify_date.                                    *)

Ex1Summary(registered, before, after) ==
  <<"John", SP, "Doe", SP, "(", "CEO", ")", SP, "executed", SP, "BUY", SP>>
  \o registered
  \o <<SP, SHARES, SP, "(", "5", "0", ".", "0", "0", "%", SP, "of", SP,
       "initial", ")", SP, "on", SP>> \o Date1 \o <<SP, "from", SP>>
  \o before
  \o <<SP, SHARES, SP, "(", "5", ".", "0", "0", "%", ")", SP, "to", SP>>
  \o after
  \o <<SP, SHARES, SP, "(", "7", ".", "5", "0", "%", ")", ".", SP,
       "Acquired:", SP, "5", "0", "0", SP, SHARES, SP, "(", "+", "2", ".",
       "5", "0", "%", SP, "change", ")", ".">>

IsExample1(event) ==
  /\ Get(event, "event_desc") = Ex1Desc
  /\ Get(event, "exer_date") = Date1

Example1Gives(summary) ==
  \A i \in 1..Len(processed_events) :
    (i <= Len(events) /\ IsExample1(events[i])) =>
      /\ IsInfix(summary, processed_events[i]["event_desc"])
      /\ processed_events[i]["exer_date"] = Date1
      /\ processed_events[i]["notify_date"] = <<>>

C7_Example1AsStated ==
  Example1Gives(Ex1Summary(<<"1", ",", "0", "0", "0">>,
                           <<"2", ",", "0", "0", "0">>,
                           <<"2", ",", "5", "0", "0">>))

(* C7, amended: Example 1 yields that summary with the share counts        *)
(* written without thousands separators: "1000", "2000" and "2500".        *)

C7_Example1NoSeparators ==
  Example1Gives(Ex1Summary(<<"1", "0", "0", "0">>, <<"2", "0", "0", "0">>,
                           <<"2", "5", "0", "0">>))

C7_Witness ==
  \E i \in 1..Len(processed_events) :
    /\ Processed(i)
    /\ IsExample1(events[i])
    /\ Get(events[i], "notify_date") = Date2

(* C8: when the text of a transaction event has lines before its first     *)
(* anchor line and more than one block, the output event_desc is the       *)
(* summary of an anchored block, not the summary of the preamble block.    *)

HasPreamble(event) ==
  /\ IsTx(event)
  /\ lines_of(enhanced_desc(event)) # <<>>
  /\ ~ IsAnchorLine(lines_of(enhanced_desc(event))[1])
  /\ Len(EventBlocks(event)) >= 2

C8_PreambleDropped ==
  \A i \in 1..Len(processed_events) :
    (i <= Len(events) /\ HasPreamble(events[i])) =>
      LET blocks == EventBlocks(events[i])
      IN /\ \E k \in 2..Len(blocks) :
              processed_events[i]["event_desc"] = Strip(summary_of(blocks[k]))
         /\ processed_events[i]["event_desc"] # Strip(summary_of(blocks[1]))

(* C9: segmentation is a lossless ordered partition of the lines: the      *)
(* blocks are the groups of lines cut at every anchor line after the       *)
(* first line, they hold every word of the text once and in order, every   *)
(* block after block 0 begins with the anchor, and no block is empty.      *)

C9_LosslessPartition ==
  pc \in {"extract", "ret"} =>
    /\ summaries = BlocksOf(lines)
    /\ Words(Join(summaries, <<SP>>)) = Words(text)
    /\ \A k \in 1..Len(summaries) : summaries[k] # <<>>
    /\ \A k \in 2..Len(summaries) :
         /\ Len(summaries[k]) >= 3
         /\ SubSeq(summaries[k], 1, 3) = <<HY, SP, ANCHOR>>

C9_Witness ==
  /\ pc = "ret"
  /\ Len(lines) = 3
  /\ ~ IsAnchorLine(lines[1])
  /\ IsAnchorLine(lines[2])
  /\ IsAnchorLine(lines[3])
  /\ Len(summaries) = 3

(* C10: name, position and transaction_type are each the trimmed text      *)
(* after their anchor phrase up to the next " - " separator; a hyphen that *)
(* is not such a separator does not end the field; a field without a       *)
(* match is empty.                                                         *)

C10_FieldsUpToSeparator ==
  (pc \in {"extract", "ret"} /\ si > 1 /\ ~ Contains(summaries[si - 1], FINSTAT))
    => /\ rec.name = FieldUpToSeparator(summaries[si - 1], ANCHOR)
       /\ rec.position = FieldUpToSeparator(summaries[si - 1], POSITION_PH)
       /\ rec.tx_type = FieldUpToSeparator(summaries[si - 1], TXTYPE_PH)

====
